---------------------------- MODULE Spec2Model ----------------------------
(***************************************************************************)
(* Model of osquery/database/database.cpp: the database plugin self-test   *)
(* (checkDB), the result-set differ (diff), the generic plugin request     *)
(* handler (DatabasePlugin::call), the typed key/value operations with     *)
(* their local/remote routing, the bulk dump, and the property-tree        *)
(* serializers.                                                            *)
(*                                                                         *)
(* A std::string is a sequence of one-character strings, so that the       *)
(* operations the code performs on strings (ordering, '.'-separated path   *)
(* splitting, decimal parsing and printing, prefix tests) are computed.    *)
(***************************************************************************)
EXTENDS Integers, Sequences, FiniteSets, TLC

VARIABLES
  \* DatabasePlugin self-test (checkDB)
  kCheckingDB, kDBHandleOptionRequireWrite, read_only_,
  checkPc, checkStatus, checkResult, checkFault, checks, resetResult,
  \* diff
  old, current, diffPc, diffOut,
  \* key/value store, DatabasePlugin::call and the typed operations
  db, faults, external, dbPc, last, twin,
  \* the registry's database plugins and the flag that selects one
  plugin, registered, shelved, FLAGS_disable_database,
  \* serializers
  serPc, serIn, serOut,
  \* addUniqueRowToQueryData
  queryData, uniqueStart, uniqueCall

checkVars == <<kCheckingDB, kDBHandleOptionRequireWrite, read_only_,
               checkPc, checkStatus, checkResult, checkFault, checks,
               resetResult>>
diffVars == <<old, current, diffPc, diffOut>>
dbVars == <<db, faults, external, dbPc, last, twin,
           plugin, registered, shelved, FLAGS_disable_database>>
serVars == <<serPc, serIn, serOut>>
uniqueVars == <<queryData, uniqueStart, uniqueCall>>
vars == <<checkVars, diffVars, dbVars, serVars, uniqueVars>>

-----------------------------------------------------------------------------
(* Bounds of the model.                                                    *)

\* Number of checkDB runs explored in one behaviour.
MaxChecks == 2
\* Longest QueryData given to diff.
MaxRows == 3
\* Largest max given to a scan.
MaxScan == 2
\* Longest QueryData given to the serializers.
MaxSerRows == 2
\* Number of writes of other callers that run during one dump.
MaxWrites == 2
\* Longest QueryData that addUniqueRowToQueryData is given.
MaxQuery == 4

-----------------------------------------------------------------------------
(* std::string                                                             *)

\* The character codes of the characters the model's strings are made of.
CharCode ==
  "." :> 46 @@ "0" :> 48 @@ "1" :> 49 @@ "2" :> 50 @@ "3" :> 51 @@ "4" :> 52
  @@ "5" :> 53 @@ "6" :> 54 @@ "7" :> 55 @@ "8" :> 56 @@ "9" :> 57
  @@ "I" :> 73 @@ "T" :> 84 @@ "a" :> 97 @@ "b" :> 98 @@ "c" :> 99
  @@ "d" :> 100 @@ "e" :> 101 @@ "f" :> 102 @@ "g" :> 103 @@ "h" :> 104
  @@ "i" :> 105 @@ "k" :> 107 @@ "l" :> 108 @@ "m" :> 109 @@ "n" :> 110
  @@ "o" :> 111 @@ "p" :> 112 @@ "q" :> 113 @@ "r" :> 114 @@ "s" :> 115
  @@ "t" :> 116 @@ "u" :> 117 @@ "v" :> 118 @@ "x" :> 120

\* std::string operator< : lexicographic on character codes.
RECURSIVE StrLess(_, _)
StrLess(s, t) ==
  IF t = <<>> THEN FALSE
  ELSE IF s = <<>> THEN TRUE
  ELSE IF CharCode[Head(s)] # CharCode[Head(t)]
       THEN CharCode[Head(s)] < CharCode[Head(t)]
  ELSE StrLess(Tail(s), Tail(t))

\* The elements of a finite set of strings in increasing order, the order in
\* which a std::map or std::set of strings is iterated.
RECURSIVE SortedStrings(_)
SortedStrings(S) ==
  IF S = {} THEN <<>>
  ELSE LET m == CHOOSE x \in S : \A y \in S \ {x} : StrLess(x, y)
       IN <<m>> \o SortedStrings(S \ {m})

\* Status(code, message); ok() is code = 0.
Status(code, message) == [code |-> code, msg |-> message]
StatusOK == Status(0, "OK")
Ok(status) == status.code = 0

-----------------------------------------------------------------------------
(* DatabasePlugin::checkDB, database.cpp:452-468.  setUp and tearDown are  *)
(* the backend's: each either returns or raises, a std::exception or a     *)
(* throwable of another type; setUp returns any status and leaves          *)
(* read_only_ at any value.  checkFault holds where the running check was  *)
(* interrupted and by what.                                                *)
(* DatabasePlugin::reset, database.cpp:447-450, calls the same two outside *)
(* a check; resetResult holds what its last call returned or raised.       *)

StdException == "std::exception"
OtherThrowable == "not a std::exception"
Throwables == {StdException, OtherThrowable}

NoFault == [in |-> "none", exception |-> "none"]

CheckIdle ==
  /\ kCheckingDB = FALSE
  /\ kDBHandleOptionRequireWrite = FALSE
  /\ read_only_ = FALSE
  /\ checkPc = "idle"
  /\ checkStatus = StatusOK
  /\ checkResult = TRUE
  /\ checkFault = NoFault
  /\ checks = 0
  /\ resetResult = [called |-> FALSE, status |-> StatusOK,
                    exception |-> "none"]

\* The embedding process sets the handle options before a check is run.
SetRequireWrite(b) ==
  /\ checkPc = "idle"
  /\ kDBHandleOptionRequireWrite # b
  /\ kDBHandleOptionRequireWrite' = b
  /\ UNCHANGED <<kCheckingDB, read_only_, checkPc, checkStatus, checkResult,
                 checkFault, checks>>
  /\ UNCHANGED <<resetResult, diffVars, dbVars, serVars, uniqueVars>>

\* kCheckingDB = true; bool result = true;
CheckDBEnter ==
  /\ checkPc = "idle"
  /\ checks < MaxChecks
  /\ kCheckingDB' = TRUE
  /\ checkResult' = TRUE
  /\ checkFault' = NoFault
  /\ checkPc' = "setUp"
  /\ checks' = checks + 1
  /\ UNCHANGED <<kDBHandleOptionRequireWrite, read_only_, checkStatus>>
  /\ UNCHANGED <<resetResult, diffVars, dbVars, serVars, uniqueVars>>

\* auto status = setUp(); if (kDBHandleOptionRequireWrite && read_only_)
\* result = false;
CheckDBSetUp(status, ro) ==
  /\ checkPc = "setUp"
  /\ checkStatus' = status
  /\ read_only_' = ro
  /\ checkResult' = IF kDBHandleOptionRequireWrite /\ ro THEN FALSE
                    ELSE checkResult
  /\ checkPc' = "tearDown"
  /\ UNCHANGED <<kCheckingDB, kDBHandleOptionRequireWrite, checkFault, checks>>
  /\ UNCHANGED <<resetResult, diffVars, dbVars, serVars, uniqueVars>>

\* setUp() raises e: a std::exception is taken by the catch clause of line
\* 462; a throwable of another type matches no clause and leaves checkDB.
CheckDBSetUpThrows(e, ro) ==
  /\ checkPc = "setUp"
  /\ read_only_' = ro
  /\ checkFault' = [in |-> "setUp", exception |-> e]
  /\ checkPc' = IF e = StdException THEN "catch" ELSE "propagated"
  /\ UNCHANGED <<kCheckingDB, kDBHandleOptionRequireWrite, checkStatus,
                 checkResult, checks>>
  /\ UNCHANGED <<resetResult, diffVars, dbVars, serVars, uniqueVars>>

\* tearDown(); result = status.ok();
CheckDBTearDown ==
  /\ checkPc = "tearDown"
  /\ checkResult' = Ok(checkStatus)
  /\ checkPc' = "exit"
  /\ UNCHANGED <<kCheckingDB, kDBHandleOptionRequireWrite, read_only_,
                 checkStatus, checkFault, checks>>
  /\ UNCHANGED <<resetResult, diffVars, dbVars, serVars, uniqueVars>>

\* tearDown() raises e: a std::exception is taken by the catch clause of
\* line 462; a throwable of another type matches no clause and leaves checkDB.
CheckDBTearDownThrows(e) ==
  /\ checkPc = "tearDown"
  /\ checkFault' = [in |-> "tearDown", exception |-> e]
  /\ checkPc' = IF e = StdException THEN "catch" ELSE "propagated"
  /\ UNCHANGED <<kCheckingDB, kDBHandleOptionRequireWrite, read_only_,
                 checkStatus, checkResult, checks>>
  /\ UNCHANGED <<resetResult, diffVars, dbVars, serVars, uniqueVars>>

\* catch (const std::exception& e) { ...; result = false; }
CheckDBCatch ==
  /\ checkPc = "catch"
  /\ checkResult' = FALSE
  /\ checkPc' = "exit"
  /\ UNCHANGED <<kCheckingDB, kDBHandleOptionRequireWrite, read_only_,
                 checkStatus, checkFault, checks>>
  /\ UNCHANGED <<resetResult, diffVars, dbVars, serVars, uniqueVars>>

\* kCheckingDB = false; return result;
CheckDBExit ==
  /\ checkPc = "exit"
  /\ kCheckingDB' = FALSE
  /\ checkPc' = "returned"
  /\ UNCHANGED <<kDBHandleOptionRequireWrite, read_only_, checkStatus,
                 checkResult, checkFault, checks>>
  /\ UNCHANGED <<resetResult, diffVars, dbVars, serVars, uniqueVars>>

\* The caller has the returned value; the plugin is free for another check.
CheckDBDone ==
  /\ checkPc = "returned"
  /\ checkPc' = "idle"
  /\ UNCHANGED <<kCheckingDB, kDBHandleOptionRequireWrite, read_only_,
                 checkStatus, checkResult, checkFault, checks>>
  /\ UNCHANGED <<resetResult, diffVars, dbVars, serVars, uniqueVars>>

\* checkDB was left by the throwable, lines 465-466 not run: the caller that
\* handles it goes on with the plugin, kCheckingDB as checkDB left it.
CheckDBUnwind ==
  /\ checkPc = "propagated"
  /\ checkPc' = "idle"
  /\ UNCHANGED <<kCheckingDB, kDBHandleOptionRequireWrite, read_only_,
                 checkStatus, checkResult, checkFault, checks>>
  /\ UNCHANGED <<resetResult, diffVars, dbVars, serVars, uniqueVars>>

SetUpStatuses == {StatusOK, Status(1, "setUp failed")}

\* Status DatabasePlugin::reset() { tearDown(); return setUp(); } called
\* while no check is running: setUp returns any status and leaves
\* read_only_ at any value; kCheckingDB is not touched.
Reset(status, ro) ==
  /\ checkPc = "idle"
  /\ read_only_' = ro
  /\ resetResult' = [called |-> TRUE, status |-> status,
                     exception |-> "none"]
  /\ UNCHANGED <<kCheckingDB, kDBHandleOptionRequireWrite, checkPc,
                 checkStatus, checkResult, checkFault, checks>>
  /\ UNCHANGED <<diffVars, dbVars, serVars, uniqueVars>>

\* reset() has no try block: whatever tearDown or setUp raises leaves reset,
\* with read_only_ at any value.
ResetThrows(e, ro) ==
  /\ checkPc = "idle"
  /\ read_only_' = ro
  /\ resetResult' = [called |-> TRUE, status |-> Status(-1, "no status"),
                     exception |-> e]
  /\ UNCHANGED <<kCheckingDB, kDBHandleOptionRequireWrite, checkPc,
                 checkStatus, checkResult, checkFault, checks>>
  /\ UNCHANGED <<diffVars, dbVars, serVars, uniqueVars>>

-----------------------------------------------------------------------------
(* Row, QueryData, DiffResults.  A Row is a std::map<std::string,          *)
(* std::string>: a function from column names to values.  A QueryData is   *)
(* a std::vector<Row>: a sequence of rows.                                 *)

Range(s) == {s[i] : i \in DOMAIN s}

\* All sequences over S of length at most n.
SeqsUpTo(S, n) == UNION {[1..k -> S] : k \in 0..n}

\* The (column, value) pairs of a row in the order std::map iterates them.
RowPairs(r) ==
  LET cols == SortedStrings(DOMAIN r)
  IN [i \in DOMAIN cols |-> <<cols[i], r[cols[i]]>>]

\* operator< of std::pair<std::string, std::string>.
PairLess(p, q) ==
  \/ StrLess(p[1], q[1])
  \/ (~StrLess(q[1], p[1]) /\ StrLess(p[2], q[2]))

\* std::lexicographical_compare over two sequences of pairs.
RECURSIVE PairsLess(_, _)
PairsLess(a, b) ==
  IF b = <<>> THEN FALSE
  ELSE IF a = <<>> THEN TRUE
  ELSE IF PairLess(Head(a), Head(b)) THEN TRUE
  ELSE IF PairLess(Head(b), Head(a)) THEN FALSE
  ELSE PairsLess(Tail(a), Tail(b))

\* operator< of Row (std::map): lexicographic over the sorted pairs.
RowLess(r, s) == PairsLess(RowPairs(r), RowPairs(s))

\* The elements of a sequence of rows as std::multiset<Row> iterates them:
\* in non-decreasing order, equal rows kept as many times as they occur.
RECURSIVE MultisetOf(_)
MultisetOf(q) ==
  IF q = <<>> THEN <<>>
  ELSE LET rest == MultisetOf(Tail(q))
           r == Head(q)
           n == Cardinality({i \in DOMAIN rest : ~RowLess(r, rest[i])})
       IN SubSeq(rest, 1, n) \o <<r>> \o SubSeq(rest, n + 1, Len(rest))

\* std::set_difference over two sorted ranges, appended to an empty output.
RECURSIVE SetDifference(_, _)
SetDifference(a, b) ==
  IF a = <<>> THEN <<>>
  ELSE IF b = <<>> THEN a
  ELSE IF RowLess(Head(a), Head(b))
       THEN <<Head(a)>> \o SetDifference(Tail(a), b)
  ELSE IF RowLess(Head(b), Head(a)) THEN SetDifference(a, Tail(b))
  ELSE SetDifference(Tail(a), Tail(b))

\* std::find(q.begin(), q.end(), r) != q.end()
Contains(q, r) == \E i \in DOMAIN q : q[i] = r

\* A differ that subtracts nothing from old.
diff_NoOverlap(o, c) ==
  LET NotInOld(r) == ~Contains(o, r)
  IN [added |-> SelectSeq(c, NotInOld), removed |-> MultisetOf(o)]

\* A differ that reports every row of current as added.
diff_AllAdded(o, c) ==
  LET InOld(r) == Contains(o, r)
  IN [added |-> c,
      removed |-> SetDifference(MultisetOf(o), MultisetOf(SelectSeq(c, InOld)))]

\* DiffResults diff(const QueryData& old, const QueryData& current)
diff(o, c) ==
  LET InOld(r) == Contains(o, r)
      NotInOld(r) == ~Contains(o, r)
      overlap == SelectSeq(c, InOld)
  IN [added |-> SelectSeq(c, NotInOld),
      removed |-> SetDifference(MultisetOf(o), MultisetOf(overlap))]

\* The rows given to diff.
DiffRows ==
  { (<<"a">> :> <<"1">>),
    (<<"a">> :> <<"1">>) @@ (<<"b">> :> <<"1">>),
    (<<"a">> :> <<"2">>) }

DiffQueryData == SeqsUpTo(DiffRows, MaxRows)

NoDiffResults == [added |-> <<>>, removed |-> <<>>]

DiffIdle ==
  /\ old = <<>>
  /\ current = <<>>
  /\ diffPc = "idle"
  /\ diffOut = NoDiffResults

\* One evaluation of diff on the two snapshots.
Diff ==
  /\ diffPc = "input"
  /\ diffOut' = diff(old, current)
  /\ diffPc' = "done"
  /\ UNCHANGED <<old, current>>
  /\ UNCHANGED <<checkVars, dbVars, serVars, uniqueVars>>

-----------------------------------------------------------------------------
(* The key/value store.                                                    *)

kPersistentSettings ==
  <<"c", "o", "n", "f", "i", "g", "u", "r", "a", "t", "i", "o", "n", "s">>
kQueries == <<"q", "u", "e", "r", "i", "e", "s">>
kEvents == <<"e", "v", "e", "n", "t", "s">>
kLogs == <<"l", "o", "g", "s">>

kDomains == <<kPersistentSettings, kQueries, kEvents, kLogs>>

\* std::to_string(size_t): the decimal digits of n.
Digits == <<"0", "1", "2", "3", "4", "5", "6", "7", "8", "9">>
RECURSIVE to_string(_)
to_string(n) ==
  IF n < 10 THEN <<Digits[n + 1]>>
  ELSE to_string(n \div 10) \o <<Digits[(n % 10) + 1]>>

IsDigit(c) == CharCode[c] >= 48 /\ CharCode[c] <= 57

\* The longest prefix of s made of decimal digits.
RECURSIVE DigitPrefix(_)
DigitPrefix(s) ==
  IF s = <<>> \/ ~IsDigit(Head(s)) THEN <<>>
  ELSE <<Head(s)>> \o DigitPrefix(Tail(s))

RECURSIVE DigitsValue(_)
DigitsValue(s) ==
  IF s = <<>> THEN 0
  ELSE DigitsValue(SubSeq(s, 1, Len(s) - 1)) * 10 + (CharCode[s[Len(s)]] - 48)

\* std::stoul(s): the value of the leading digits of s; std::invalid_argument
\* when s does not start with a digit.  (The strings of the model carry no
\* white space or sign and are far too short to overflow unsigned long.)
Stoul(s) ==
  IF DigitPrefix(s) = <<>>
  THEN [exception |-> "std::invalid_argument", value |-> 0]
  ELSE [exception |-> "none", value |-> DigitsValue(DigitPrefix(s))]

\* Whether key starts with prefix.
HasPrefix(key, prefix) ==
  /\ Len(prefix) <= Len(key)
  /\ SubSeq(key, 1, Len(prefix)) = prefix

(* The backend (the Store Contract): a store is a function from            *)
(* <<domain, key>> to the value held.  flt is the set of backend           *)
(* operations that fail with a backend error: <<"scan", domain>> and       *)
(* <<op, domain, key>> for op in get, put, remove.  Every operation        *)
(* yields its status, its output argument (out), the store it leaves and   *)
(* the operation it was (ops), for the record of what reached the backend. *)

BackendError == Status(1, "backend error")

\* get(domain, key) -> value-or-absent; value is written only on success.
BackendGet(store, flt, domain, key, value) ==
  LET op == <<"get", domain, key>>
  IN IF op \in flt
     THEN [status |-> BackendError, out |-> value, db |-> store,
           ops |-> <<op>>]
     ELSE IF <<domain, key>> \in DOMAIN store
     THEN [status |-> StatusOK, out |-> store[<<domain, key>>],
           db |-> store, ops |-> <<op>>]
     ELSE [status |-> Status(1, "not found"), out |-> value, db |-> store,
           ops |-> <<op>>]

\* put(domain, key, value)
BackendPut(store, flt, domain, key, value) ==
  LET op == <<"put", domain, key>>
  IN IF op \in flt
     THEN [status |-> BackendError, out |-> <<>>, db |-> store,
           ops |-> <<op>>]
     ELSE [status |-> StatusOK, out |-> <<>>,
           db |-> [p \in DOMAIN store \cup {<<domain, key>>} |->
                     IF p = <<domain, key>> THEN value ELSE store[p]],
           ops |-> <<op>>]

\* remove(domain, key)
BackendRemove(store, flt, domain, key) ==
  LET op == <<"remove", domain, key>>
  IN IF op \in flt
     THEN [status |-> BackendError, out |-> <<>>, db |-> store,
           ops |-> <<op>>]
     ELSE [status |-> StatusOK, out |-> <<>>,
           db |-> [p \in DOMAIN store \ {<<domain, key>>} |-> store[p]],
           ops |-> <<op>>]

\* scan(domain, prefix, max) -> ordered sequence of keys, appended to keys;
\* max = 0 means unbounded.
BackendScan(store, flt, domain, keys, prefix, max) ==
  LET op == <<"scan", domain, prefix, max>>
      found == SortedStrings({p[2] : p \in {q \in DOMAIN store :
                                q[1] = domain /\ HasPrefix(q[2], prefix)}})
      kept == IF max > 0 /\ Len(found) > max THEN SubSeq(found, 1, max)
              ELSE found
  IN IF <<"scan", domain>> \in flt
     THEN [status |-> BackendError, out |-> keys, db |-> store,
           ops |-> <<op>>]
     ELSE [status |-> StatusOK, out |-> keys \o kept, db |-> store,
           ops |-> <<op>>]

-----------------------------------------------------------------------------
(* DatabasePlugin::call, database.cpp:470-509.  A PluginRequest is a       *)
(* function from field names to strings; a PluginResponse is a sequence    *)
(* of such functions.  The result records the status returned, or the      *)
(* exception that left call instead, with the response list, the store     *)
(* and the backend operations made.                                        *)

NoStatus == Status(-1, "no status returned")

Field(request, name) == IF name \in DOMAIN request THEN request[name] ELSE <<>>

\* What leaves call when an exception is raised in it.
Raised(store, response, e) ==
  [status |-> NoStatus, exception |-> e, response |-> response, db |-> store,
   ops |-> <<>>]

\* What leaves call when it returns before reaching the backend.
Rejected(store, response, message) ==
  [status |-> Status(1, message), exception |-> "none",
   response |-> response, db |-> store, ops |-> <<>>]

\* return this->put(...) and return this->remove(...): the backend's status.
Returned(r, response) ==
  [status |-> r.status, exception |-> "none", response |-> response,
   db |-> r.db, ops |-> r.ops]

\* response.push_back({{"v", value}}); return status;
GetReturned(r, response) ==
  [status |-> r.status, exception |-> "none",
   response |-> response \o <<("v" :> r.out)>>, db |-> r.db, ops |-> r.ops]

\* for (key : keys) response.push_back({{"k", key}}); return status;
ScanReturned(r, response) ==
  [status |-> r.status, exception |-> "none",
   response |-> response \o [i \in DOMAIN r.out |-> ("k" :> r.out[i])],
   db |-> r.db, ops |-> r.ops]

\* size_t max = 0; if (request.count("max") > 0) max = std::stoul(...);
ScanMax(request) ==
  IF "max" \in DOMAIN request THEN Stoul(request["max"])
  ELSE [exception |-> "none", value |-> 0]

\* The scan branch, lines 493-506.
callScan(store, flt, request, response) ==
  IF ScanMax(request).exception # "none"
  THEN Raised(store, response, ScanMax(request).exception)
  ELSE IF "prefix" \notin DOMAIN request
  THEN Raised(store, response, "std::out_of_range")
  ELSE ScanReturned(BackendScan(store, flt, Field(request, "domain"), <<>>,
                                request["prefix"], ScanMax(request).value),
                    response)

\* A put branch that writes an empty value when the request carries none.
callPut_DefaultValue(store, flt, request, response) ==
  Returned(BackendPut(store, flt, Field(request, "domain"),
                      Field(request, "key"), Field(request, "value")),
           response)

\* The put branch, lines 486-490.
callPut(store, flt, request, response) ==
  IF "value" \notin DOMAIN request
  THEN Rejected(store, response, "Database plugin put action requires a value")
  ELSE Returned(BackendPut(store, flt, Field(request, "domain"),
                           Field(request, "key"), request["value"]),
                response)

Str_get == <<"g", "e", "t">>
Str_put == <<"p", "u", "t">>
Str_remove == <<"r", "e", "m", "o", "v", "e">>
Str_scan == <<"s", "c", "a", "n">>

\* Status DatabasePlugin::call(const PluginRequest&, PluginResponse&)
call(store, flt, request, response) ==
  IF "action" \notin DOMAIN request
  THEN Rejected(store, response,
                "Database plugin must include a request action")
  ELSE IF request["action"] = Str_get
  THEN GetReturned(BackendGet(store, flt, Field(request, "domain"),
                              Field(request, "key"), <<>>),
                   response)
  ELSE IF request["action"] = Str_put
  THEN callPut(store, flt, request, response)
  ELSE IF request["action"] = Str_remove
  THEN Returned(BackendRemove(store, flt, Field(request, "domain"),
                              Field(request, "key")),
                response)
  ELSE IF request["action"] = Str_scan
  THEN callScan(store, flt, request, response)
  ELSE Rejected(store, response, "Unknown database plugin action")

-----------------------------------------------------------------------------
(* The typed operations, database.cpp:520-602.  ext is                     *)
(* Registry::external().  Each yields the status returned, the caller's    *)
(* output argument as the operation leaves it (out), the store and the     *)
(* backend operations made.                                                *)

\* const std::string kInternalDatabase = DATABASE_PLUGIN, line 48, in a build
\* with RocksDB.
kInternalDatabase == "rocksdb"
\* The in-memory database plugin that initPlugin selects when persistence is
\* disabled, line 436.
kEphemeral == "ephemeral"

\* The registry as the typed operations see it (reg): the names of the
\* database plugins it holds and the name of the active one, "" when none
\* has been made active.
\* getDatabasePlugin(), lines 511-518: nullptr (FALSE) unless the registry
\* holds the plugin named as the active one.
getDatabasePlugin(reg) == reg.active \in reg.names

\* Registry::call("database", request, response): the registry hands the
\* request to the active database plugin's call and returns its status; with
\* no active plugin it returns a failure and touches nothing.
RegistryCall(reg, store, flt, request, response) ==
  IF reg.active \in reg.names
  THEN call(store, flt, request, response)
  ELSE [status |-> Status(1, "no active database plugin"),
        exception |-> "none", response |-> response, db |-> store,
        ops |-> <<>>]

\* plugin->get(...), plugin->put(...), plugin->remove(...), plugin->scan(...):
\* the backend's own result r when plugin is not null.  The pointer is not
\* tested: on nullptr the call is undefined behaviour, a virtual call through
\* address 0, which ends the process with SIGSEGV and leaves the caller's
\* output (value) and the store as they were.
Local(p, r, value, store) ==
  IF p
  THEN [status |-> r.status, exception |-> "none", out |-> r.out,
        db |-> r.db, ops |-> r.ops]
  ELSE [status |-> NoStatus, exception |-> "SIGSEGV", out |-> value,
        db |-> store, ops |-> <<>>]

\* return Registry::call("database", request);
RemoteStatus(r) ==
  [status |-> r.status, exception |-> r.exception, out |-> <<>>, db |-> r.db,
   ops |-> r.ops]

\* A remote get that copies the response's value whatever the status.
RemoteValue_CopyAlways(r, value) ==
  [status |-> r.status, exception |-> r.exception,
   out |-> IF Len(r.response) > 0 /\ "v" \in DOMAIN r.response[1]
           THEN r.response[1]["v"] ELSE value,
   db |-> r.db, ops |-> r.ops]

\* Lines 530-536: value is set from the response's "v" when the status is ok.
RemoteValue(r, value) ==
  [status |-> r.status, exception |-> r.exception,
   out |-> IF /\ Ok(r.status)
              /\ Len(r.response) > 0
              /\ "v" \in DOMAIN r.response[1]
           THEN r.response[1]["v"] ELSE value,
   db |-> r.db, ops |-> r.ops]

\* Status getDatabaseValue(domain, key, value), lines 520-541.
getDatabaseValue(reg, store, flt, ext, domain, key, value) ==
  IF ext
  THEN RemoteValue(RegistryCall(reg, store, flt,
                                ("action" :> Str_get) @@ ("domain" :> domain)
                                @@ ("key" :> key),
                                <<>>),
                   value)
  ELSE Local(getDatabasePlugin(reg),
             BackendGet(store, flt, domain, key, value), value, store)

\* Status setDatabaseValue(domain, key, value), lines 543-556.
setDatabaseValue(reg, store, flt, ext, domain, key, value) ==
  IF ext
  THEN RemoteStatus(RegistryCall(reg, store, flt,
                                 ("action" :> Str_put) @@ ("domain" :> domain)
                                 @@ ("key" :> key) @@ ("value" :> value),
                                 <<>>))
  ELSE Local(getDatabasePlugin(reg),
             BackendPut(store, flt, domain, key, value), <<>>, store)

\* Status deleteDatabaseValue(domain, key), lines 558-569.
deleteDatabaseValue(reg, store, flt, ext, domain, key) ==
  IF ext
  THEN RemoteStatus(RegistryCall(reg, store, flt,
                                 ("action" :> Str_remove)
                                 @@ ("domain" :> domain) @@ ("key" :> key),
                                 <<>>))
  ELSE Local(getDatabasePlugin(reg),
             BackendRemove(store, flt, domain, key), <<>>, store)

\* The keys of the response's entries that carry a "k", in order.
RECURSIVE ResponseKeys(_)
ResponseKeys(response) ==
  IF response = <<>> THEN <<>>
  ELSE (IF "k" \in DOMAIN Head(response) THEN <<Head(response)["k"]>>
        ELSE <<>>) \o ResponseKeys(Tail(response))

\* Lines 592-597: every "k" of the response is appended to keys.
RemoteKeys(r, keys) ==
  [status |-> r.status, exception |-> r.exception,
   out |-> keys \o ResponseKeys(r.response), db |-> r.db, ops |-> r.ops]

\* Status scanDatabaseKeys(domain, keys, prefix, max), lines 578-602.
scanDatabaseKeys(reg, store, flt, ext, domain, keys, prefix, max) ==
  IF ext
  THEN RemoteKeys(RegistryCall(reg, store, flt,
                               ("action" :> Str_scan) @@ ("domain" :> domain)
                               @@ ("prefix" :> prefix)
                               @@ ("max" :> to_string(max)),
                               <<>>),
                  keys)
  ELSE Local(getDatabasePlugin(reg),
             BackendScan(store, flt, domain, keys, prefix, max), keys, store)

\* Status scanDatabaseKeys(domain, keys, max), lines 571-575.
scanDatabaseKeys3(reg, store, flt, ext, domain, keys, max) ==
  scanDatabaseKeys(reg, store, flt, ext, domain, keys, <<>>, max)

-----------------------------------------------------------------------------
(* dumpDatabase, database.cpp:604-619.  The dump holds no lock: it is a    *)
(* scanDatabaseKeys per domain and a getDatabaseValue per key found, each  *)
(* a backend operation of its own, and other callers' operations run in    *)
(* between.  The record of a dump in progress: the domains the outer loop  *)
(* has not finished (the first is the current one), whether the current    *)
(* one has been scanned, the keys the inner loop has not visited, the      *)
(* <<domain, key, value>> lines printed (out), the backend operations made *)
(* (ops), what each scan and get returned (trace), and how many writes of  *)
(* other callers ran meanwhile (writes).                                   *)

DumpStart ==
  [op |-> "dumpDatabase", domains |-> kDomains, scanned |-> FALSE,
   keys |-> <<>>, out |-> <<>>, ops |-> <<>>, trace |-> <<>>, writes |-> 0,
   exception |-> "none"]

\* The outer loop moves to the next domain when the inner loop has no key
\* left.
dumpNext(d) ==
  IF d.scanned /\ d.keys = <<>>
  THEN [d EXCEPT !.domains = Tail(@), !.scanned = FALSE]
  ELSE d

\* Lines 606-609: s is the scanDatabaseKeys of the current domain; a failed
\* scan continues with the next domain.
dumpAfterScan(d, s) ==
  IF s.exception # "none" THEN [d EXCEPT !.exception = s.exception]
  ELSE IF ~Ok(s.status)
  THEN [d EXCEPT !.domains = Tail(@), !.ops = @ \o s.ops,
                 !.trace = Append(@, <<"scan", Head(d.domains), FALSE,
                                       <<>>>>)]
  ELSE dumpNext([d EXCEPT !.scanned = TRUE, !.keys = s.out,
                          !.ops = @ \o s.ops,
                          !.trace = Append(@, <<"scan", Head(d.domains),
                                                TRUE, s.out>>)])

\* Lines 610-616: g is the getDatabaseValue of the current key; a failed get
\* continues with the next key, a successful one prints the line.
dumpAfterGet(d, g) ==
  IF g.exception # "none" THEN [d EXCEPT !.exception = g.exception]
  ELSE dumpNext([d EXCEPT
                   !.keys = Tail(@),
                   !.out = IF Ok(g.status)
                           THEN Append(@, <<Head(d.domains), Head(d.keys),
                                            g.out>>)
                           ELSE @,
                   !.ops = @ \o g.ops,
                   !.trace = Append(@, <<"get", Head(d.domains),
                                         Head(d.keys), Ok(g.status),
                                         g.out>>)])

\* Another caller's write w ran while the dump was in progress.
dumpInterleaved(d, w) ==
  [d EXCEPT !.writes = @ + 1, !.exception = w.exception]

\* The dump returns when the outer loop has no domain left; the process ends
\* where an operation was made through the null plugin.
dumpPc(d) ==
  IF d.exception # "none" \/ d.domains = <<>> THEN "returned" ELSE "dumping"

-----------------------------------------------------------------------------
(* The store's actions.  An operation runs when no result is pending       *)
(* (dbPc = "idle") and leaves its result in last; DbReturn hands the       *)
(* result to the caller.  twin holds what the same typed operation yields  *)
(* from the same store under the other routing mode.                       *)

NoOp == [op |-> "none"]

\* Marks a field that a request does not carry.
Absent == <<"absent">>

Str_bogus == <<"b", "o", "g", "u", "s">>
Key_a == <<"a">>
Key_ab == <<"a", "b">>
Val_v == <<"v">>
Val_w == <<"w">>

\* The values a request's fields take.
FieldValues ==
  [action |-> {Str_get, Str_put, Str_remove, Str_scan, Str_bogus, Absent},
   domain |-> {kQueries, Absent},
   key |-> {Key_a, Key_ab, Absent},
   value |-> {Val_v, Absent},
   prefix |-> {<<>>, Key_ab, Absent},
   max |-> {to_string(n) : n \in 0..MaxScan} \cup {<<"x">>, Absent}]

\* Every request map: any subset of the fields present.
Requests ==
  {[n \in {m \in DOMAIN f : f[m] # Absent} |-> f[n]] :
     f \in [action : FieldValues.action, domain : FieldValues.domain,
            key : FieldValues.key, value : FieldValues.value,
            prefix : FieldValues.prefix, max : FieldValues.max]}

\* The response lists a caller hands to call.
Responses == {<<>>, <<("v" :> Val_w)>>}

\* The registry as the typed operations see it.
Registry == [names |-> registered, active |-> plugin]

DbIdle ==
  /\ db = <<>>
  /\ faults = {}
  /\ external = FALSE
  /\ plugin = kInternalDatabase
  /\ registered = {kInternalDatabase}
  /\ shelved = <<>>
  /\ FLAGS_disable_database = FALSE
  /\ dbPc = "idle"
  /\ last = NoOp
  /\ twin = NoOp

\* The record of a call: what it was given and what it left.
CallOutcome(request, response, before, r) ==
  [op |-> "call", request |-> request, response0 |-> response,
   dbBefore |-> before, status |-> r.status, exception |-> r.exception,
   response |-> r.response, db |-> r.db, ops |-> r.ops]

\* The record of a typed operation: what it was given and what it left.
TypedOutcome(op, args, before, r) ==
  [op |-> op, args |-> args, dbBefore |-> before, status |-> r.status,
   exception |-> r.exception, out |-> r.out, db |-> r.db, ops |-> r.ops]

\* The active plugin's call is given a request and a response list.
Call(request, response) ==
  /\ dbPc = "idle"
  /\ last' = CallOutcome(request, response, db,
                         call(db, faults, request, response))
  /\ db' = last'.db
  /\ dbPc' = "returned"
  /\ UNCHANGED <<faults, external, twin, plugin, registered, shelved,
                 FLAGS_disable_database>>
  /\ UNCHANGED <<checkVars, diffVars, serVars, uniqueVars>>

GetDatabaseValue(domain, key, value) ==
  /\ dbPc = "idle"
  /\ last' = TypedOutcome("getDatabaseValue",
                          [domain |-> domain, key |-> key, value |-> value],
                          db,
                          getDatabaseValue(Registry, db, faults, external, domain, key,
                                           value))
  /\ twin' = getDatabaseValue(Registry, db, faults, ~external, domain, key, value)
  /\ db' = last'.db
  /\ dbPc' = "returned"
  /\ UNCHANGED <<faults, external, plugin, registered, shelved,
                 FLAGS_disable_database>>
  /\ UNCHANGED <<checkVars, diffVars, serVars, uniqueVars>>

SetDatabaseValue(domain, key, value) ==
  /\ dbPc = "idle"
  /\ last' = TypedOutcome("setDatabaseValue",
                          [domain |-> domain, key |-> key, value |-> value],
                          db,
                          setDatabaseValue(Registry, db, faults, external, domain, key,
                                           value))
  /\ twin' = setDatabaseValue(Registry, db, faults, ~external, domain, key, value)
  /\ db' = last'.db
  /\ dbPc' = "returned"
  /\ UNCHANGED <<faults, external, plugin, registered, shelved,
                 FLAGS_disable_database>>
  /\ UNCHANGED <<checkVars, diffVars, serVars, uniqueVars>>

DeleteDatabaseValue(domain, key) ==
  /\ dbPc = "idle"
  /\ last' = TypedOutcome("deleteDatabaseValue",
                          [domain |-> domain, key |-> key], db,
                          deleteDatabaseValue(Registry, db, faults, external, domain,
                                              key))
  /\ twin' = deleteDatabaseValue(Registry, db, faults, ~external, domain, key)
  /\ db' = last'.db
  /\ dbPc' = "returned"
  /\ UNCHANGED <<faults, external, plugin, registered, shelved,
                 FLAGS_disable_database>>
  /\ UNCHANGED <<checkVars, diffVars, serVars, uniqueVars>>

ScanDatabaseKeys(domain, keys, prefix, max) ==
  /\ dbPc = "idle"
  /\ last' = TypedOutcome("scanDatabaseKeys",
                          [domain |-> domain, keys |-> keys,
                           prefix |-> prefix, max |-> max],
                          db,
                          scanDatabaseKeys(Registry, db, faults, external, domain, keys,
                                           prefix, max))
  /\ twin' = scanDatabaseKeys(Registry, db, faults, ~external, domain, keys, prefix, max)
  /\ db' = last'.db
  /\ dbPc' = "returned"
  /\ UNCHANGED <<faults, external, plugin, registered, shelved,
                 FLAGS_disable_database>>
  /\ UNCHANGED <<checkVars, diffVars, serVars, uniqueVars>>

\* The flag --disable_database is set or cleared.
SetDisableDatabase(b) ==
  /\ dbPc = "idle"
  /\ FLAGS_disable_database # b
  /\ FLAGS_disable_database' = b
  /\ UNCHANGED <<db, faults, external, dbPc, last, twin, plugin, registered,
                 shelved>>
  /\ UNCHANGED <<checkVars, diffVars, serVars, uniqueVars>>

\* Registry::setActive("database", name) fails and changes nothing when the
\* registry holds no database plugin of that name.  Otherwise the named
\* plugin serves from now on: db is its store, and the store of the plugin
\* that served before is kept with the registry's other plugins.
setActive(name) ==
  IF name \notin registered
  THEN UNCHANGED <<db, plugin, shelved>>
  ELSE IF name = plugin
  THEN UNCHANGED <<db, plugin, shelved>>
  ELSE /\ plugin' = name
       /\ db' = shelved[name]
       /\ shelved' = [n \in registered \ {name} |->
                        IF n = plugin THEN db ELSE shelved[n]]

\* bool DatabasePlugin::initPlugin(), lines 434-438: the plugin is
\* "ephemeral" when FLAGS_disable_database is set and kInternalDatabase
\* otherwise; the result is whether Registry::setActive succeeded.
InitPlugin ==
  /\ dbPc = "idle"
  /\ setActive(IF FLAGS_disable_database THEN kEphemeral
               ELSE kInternalDatabase)
  /\ last' = [op |-> "initPlugin",
              result |-> (IF FLAGS_disable_database THEN kEphemeral
                          ELSE kInternalDatabase) \in registered,
              exception |-> "none"]
  /\ dbPc' = "returned"
  /\ UNCHANGED <<faults, external, twin, registered, FLAGS_disable_database>>
  /\ UNCHANGED <<checkVars, diffVars, serVars, uniqueVars>>

\* void DatabasePlugin::shutdown(), lines 440-445: every database plugin is
\* removed from the registry.
Shutdown ==
  /\ dbPc = "idle"
  /\ registered' = {}
  /\ shelved' = <<>>
  /\ last' = [op |-> "shutdown", exception |-> "none"]
  /\ dbPc' = "returned"
  /\ UNCHANGED <<db, faults, external, twin, plugin, FLAGS_disable_database>>
  /\ UNCHANGED <<checkVars, diffVars, serVars, uniqueVars>>

\* void dumpDatabase() is entered.
DumpDatabase ==
  /\ dbPc = "idle"
  /\ last' = DumpStart
  /\ dbPc' = "dumping"
  /\ UNCHANGED <<db, faults, external, twin, plugin, registered, shelved,
                 FLAGS_disable_database>>
  /\ UNCHANGED <<checkVars, diffVars, serVars, uniqueVars>>

\* if (!scanDatabaseKeys(domain, keys)) continue;
DumpScan ==
  /\ dbPc = "dumping"
  /\ ~last.scanned
  /\ last' = dumpAfterScan(last,
                           scanDatabaseKeys3(Registry, db, faults, external,
                                             Head(last.domains), <<>>, 0))
  /\ dbPc' = dumpPc(last')
  /\ UNCHANGED <<db, faults, external, twin, plugin, registered, shelved,
                 FLAGS_disable_database>>
  /\ UNCHANGED <<checkVars, diffVars, serVars, uniqueVars>>

\* if (!getDatabaseValue(domain, key, value)) continue; fprintf(...);
DumpGet ==
  /\ dbPc = "dumping"
  /\ last.scanned
  /\ last' = dumpAfterGet(last,
                          getDatabaseValue(Registry, db, faults, external,
                                           Head(last.domains),
                                           Head(last.keys), <<>>))
  /\ dbPc' = dumpPc(last')
  /\ UNCHANGED <<db, faults, external, twin, plugin, registered, shelved,
                 FLAGS_disable_database>>
  /\ UNCHANGED <<checkVars, diffVars, serVars, uniqueVars>>

\* Another caller's setDatabaseValue runs between two steps of the dump.
OtherSetDatabaseValue(domain, key, value) ==
  /\ dbPc = "dumping"
  /\ last.writes < MaxWrites
  /\ db' = setDatabaseValue(Registry, db, faults, external, domain, key,
                            value).db
  /\ last' = dumpInterleaved(last,
                             setDatabaseValue(Registry, db, faults, external,
                                              domain, key, value))
  /\ dbPc' = dumpPc(last')
  /\ UNCHANGED <<faults, external, twin, plugin, registered, shelved,
                 FLAGS_disable_database>>
  /\ UNCHANGED <<checkVars, diffVars, serVars, uniqueVars>>

\* Another caller's deleteDatabaseValue runs between two steps of the dump.
OtherDeleteDatabaseValue(domain, key) ==
  /\ dbPc = "dumping"
  /\ last.writes < MaxWrites
  /\ db' = deleteDatabaseValue(Registry, db, faults, external, domain, key).db
  /\ last' = dumpInterleaved(last,
                             deleteDatabaseValue(Registry, db, faults, external,
                                                 domain, key))
  /\ dbPc' = dumpPc(last')
  /\ UNCHANGED <<faults, external, twin, plugin, registered, shelved,
                 FLAGS_disable_database>>
  /\ UNCHANGED <<checkVars, diffVars, serVars, uniqueVars>>

\* The caller takes the result; no caller is left after SIGSEGV.
DbReturn ==
  /\ dbPc = "returned"
  /\ last.exception # "SIGSEGV"
  /\ dbPc' = "idle"
  /\ last' = NoOp
  /\ twin' = NoOp
  /\ UNCHANGED <<db, faults, external, plugin, registered, shelved,
                 FLAGS_disable_database>>
  /\ UNCHANGED <<checkVars, diffVars, serVars, uniqueVars>>

\* The inputs of the typed operations.
RouteDomains == {kQueries}
RouteKeys == {Key_a, Key_ab}
RouteValues == {Val_v, Val_w}
RoutePrefixes == {<<>>, Key_a, Key_ab}
\* The backend operations that may be failing while the typed operations run.
RouteFaultOps ==
  {<<"get", kQueries, Key_a>>, <<"put", kQueries, Key_ab>>,
   <<"remove", kQueries, Key_ab>>, <<"scan", kQueries>>}

\* The stores and failing operations a dump is run on, and the entries
\* other callers write meanwhile.
DumpKeys == {Key_a, Key_ab}
DumpPairs ==
  {<<kPersistentSettings, Key_a>>, <<kQueries, Key_a>>, <<kQueries, Key_ab>>,
   <<kLogs, Key_a>>}
DumpStores == UNION {[P -> {Val_v}] : P \in SUBSET DumpPairs}
DumpFaultOps ==
  {<<"scan", kPersistentSettings>>, <<"scan", kEvents>>,
   <<"get", kQueries, Key_a>>, <<"get", kLogs, Key_a>>}
DumpWrites == {<<kQueries, Key_a>>, <<kQueries, Key_ab>>, <<kEvents, Key_a>>}

-----------------------------------------------------------------------------
(* boost::property_tree::ptree as the serializers use it: a node holds a   *)
(* string (data) and an ordered list of <<key, child>> pairs (kids).       *)

EmptyTree == [data |-> <<>>, kids |-> <<>>]

\* The segments of a path: the path split at its '.' separators; the empty
\* path has no segment and names the node itself.
RECURSIVE SplitPath(_)
SplitPath(path) ==
  IF path = <<>> THEN <<>>
  ELSE LET dots == {i \in DOMAIN path : path[i] = "."}
       IN IF dots = {} THEN <<path>>
          ELSE LET d == CHOOSE i \in dots : \A j \in dots : i <= j
               IN <<SubSeq(path, 1, d - 1)>>
                  \o SplitPath(SubSeq(path, d + 1, Len(path)))

\* Index of the first child of tree with this key, 0 when there is none.
FindKid(tree, key) ==
  LET hits == {i \in DOMAIN tree.kids : tree.kids[i][1] = key}
  IN IF hits = {} THEN 0 ELSE CHOOSE i \in hits : \A j \in hits : i <= j

\* ptree::put along the segments of a path: the node at the path gets the
\* value as its data; missing nodes on the way are appended.
RECURSIVE PutPath(_, _, _)
PutPath(tree, segs, value) ==
  IF segs = <<>> THEN [tree EXCEPT !.data = value]
  ELSE IF FindKid(tree, Head(segs)) = 0
  THEN [tree EXCEPT !.kids =
          Append(@, <<Head(segs), PutPath(EmptyTree, Tail(segs), value)>>)]
  ELSE [tree EXCEPT !.kids[FindKid(tree, Head(segs))] =
          <<Head(segs), PutPath(@[2], Tail(segs), value)>>]

\* tree.put<std::string>(path, value)
Put(tree, path, value) == PutPath(tree, SplitPath(path), value)

\* tree.add_child(key, child) and tree.push_back({key, child}) for a key
\* without separator: the child is appended.
AddChild(tree, key, child) == [tree EXCEPT !.kids = Append(@, <<key, child>>)]

\* tree.count(key)
Count(tree, key) == Cardinality({i \in DOMAIN tree.kids : tree.kids[i][1] = key})

\* tree.get_child(key), for a key the tree holds.
GetChild(tree, key) == tree.kids[FindKid(tree, key)][2]

Str_added == <<"a", "d", "d", "e", "d">>
Str_removed == <<"r", "e", "m", "o", "v", "e", "d">>
Str_action == <<"a", "c", "t", "i", "o", "n">>
Str_columns == <<"c", "o", "l", "u", "m", "n", "s">>
Str_decorations == <<"d", "e", "c", "o", "r", "a", "t", "i", "o", "n", "s">>
Str_name == <<"n", "a", "m", "e">>
Str_hostIdentifier ==
  <<"h", "o", "s", "t", "I", "d", "e", "n", "t", "i", "f", "i", "e", "r">>
Str_calendarTime == <<"c", "a", "l", "e", "n", "d", "a", "r", "T", "i", "m", "e">>
Str_unixTime == <<"u", "n", "i", "x", "T", "i", "m", "e">>

-----------------------------------------------------------------------------
(* The serializers, database.cpp:68-215 and 263-424.  Each yields its      *)
(* status and the tree or value it was given, as it leaves it.             *)

\* The loop of serializeRow over the row's pairs, lines 70-72.
RECURSIVE putPairs(_, _)
putPairs(pairs, tree) ==
  IF pairs = <<>> THEN tree
  ELSE putPairs(Tail(pairs), Put(tree, Head(pairs)[1], Head(pairs)[2]))

\* Status serializeRow(const Row& r, pt::ptree& tree)
serializeRow(r, tree) ==
  [status |-> StatusOK, tree |-> putPairs(RowPairs(r), tree)]

\* r[i.first] = i.second.data();
SetColumn(r, column, value) ==
  [c \in DOMAIN r \cup {column} |-> IF c = column THEN value ELSE r[c]]

\* The loop of deserializeRow over the tree's children, lines 98-102.
RECURSIVE readKids(_, _)
readKids(kids, r) ==
  IF kids = <<>> THEN r
  ELSE readKids(Tail(kids),
                IF Len(Head(kids)[1]) > 0
                THEN SetColumn(r, Head(kids)[1], Head(kids)[2].data)
                ELSE r)

\* Status deserializeRow(const pt::ptree& tree, Row& r)
deserializeRow(tree, r) ==
  [status |-> StatusOK, row |-> readKids(tree.kids, r)]

\* Status serializeQueryData(const QueryData& q, pt::ptree& tree); pushRow is
\* one turn of its loop, s the serialized row.
RECURSIVE serializeQueryData(_, _)
RECURSIVE pushRow(_, _, _)
pushRow(s, rest, tree) ==
  IF ~Ok(s.status) THEN [status |-> s.status, tree |-> tree]
  ELSE serializeQueryData(rest, AddChild(tree, <<>>, s.tree))

serializeQueryData(q, tree) ==
  IF q = <<>> THEN [status |-> StatusOK, tree |-> tree]
  ELSE pushRow(serializeRow(Head(q), EmptyTree), Tail(q), tree)

\* Status deserializeQueryData(const pt::ptree& tree, QueryData& qd); readRows
\* is its loop over the tree's children, appendRow one turn, d the row read.
RECURSIVE readRows(_, _)
RECURSIVE appendRow(_, _, _)
appendRow(d, rest, qd) ==
  IF ~Ok(d.status) THEN [status |-> d.status, qd |-> qd]
  ELSE readRows(rest, Append(qd, d.row))

readRows(kids, qd) ==
  IF kids = <<>> THEN [status |-> StatusOK, qd |-> qd]
  ELSE appendRow(deserializeRow(Head(kids)[2], <<>>), Tail(kids), qd)

deserializeQueryData(tree, qd) == readRows(tree.kids, qd)

\* Lines 191-197 of serializeDiffResults: r is the serialized removed list.
addRemoved(r, tree) ==
  IF ~Ok(r.status) THEN [status |-> r.status, tree |-> tree]
  ELSE [status |-> StatusOK, tree |-> AddChild(tree, Str_removed, r.tree)]

\* Lines 184-189 of serializeDiffResults: a is the serialized added list.
addAdded(a, d, tree) ==
  IF ~Ok(a.status) THEN [status |-> a.status, tree |-> tree]
  ELSE addRemoved(serializeQueryData(d.removed, EmptyTree),
                  AddChild(tree, Str_added, a.tree))

\* Status serializeDiffResults(const DiffResults& d, pt::ptree& tree)
serializeDiffResults(d, tree) ==
  addAdded(serializeQueryData(d.added, EmptyTree), d, tree)

\* if (tree.count(name) > 0) deserializeQueryData(tree.get_child(name), qd)
readList(tree, name, qd) ==
  IF Count(tree, name) > 0
  THEN deserializeQueryData(GetChild(tree, name), qd)
  ELSE [status |-> StatusOK, qd |-> qd]

\* Lines 208-214 of deserializeDiffResults: r is the removed list read.
readRemoved(r, dr) ==
  [status |-> r.status, dr |-> [dr EXCEPT !.removed = r.qd]]

\* Lines 201-206 of deserializeDiffResults: a is the added list read.
readAdded(a, tree, dr) ==
  IF ~Ok(a.status)
  THEN [status |-> a.status, dr |-> [dr EXCEPT !.added = a.qd]]
  ELSE readRemoved(readList(tree, Str_removed, dr.removed),
                   [dr EXCEPT !.added = a.qd])

\* Status deserializeDiffResults(const pt::ptree& tree, DiffResults& dr)
deserializeDiffResults(tree, dr) ==
  readAdded(readList(tree, Str_added, dr.added), tree, dr)

\* Lines 275-280: the decorations are put under a new "decorations" child.
nestDecorations(tree, pairs) ==
  [tree EXCEPT !.kids[FindKid(tree, Str_decorations)] =
     <<Str_decorations, putPairs(pairs, @[2])>>]

\* Lines 272-281: the decorations, top_level being
\* FLAGS_decorations_top_level.
decorate(tree, pairs, top_level) ==
  IF Len(pairs) = 0 THEN tree
  ELSE IF top_level THEN putPairs(pairs, tree)
  ELSE nestDecorations(AddChild(tree, Str_decorations, EmptyTree), pairs)

\* void addLegacyFieldsAndDecorations(const QueryLogItem& item, pt::ptree&)
addLegacyFieldsAndDecorations(item, tree, top_level) ==
  decorate(Put(Put(Put(Put(tree, Str_name, item.name),
                       Str_hostIdentifier, item.identifier),
                   Str_calendarTime, item.calendar_time),
               Str_unixTime, to_string(item.time)),
           RowPairs(item.decorations), top_level)

\* The loop of serializeEvent over the children of the row's tree.
RECURSIVE putColumns(_, _)
putColumns(kids, columns) ==
  IF kids = <<>> THEN columns
  ELSE putColumns(Tail(kids), Put(columns, Head(kids)[1], Head(kids)[2].data))

\* Status serializeEvent(const QueryLogItem&, const pt::ptree& event,
\* pt::ptree& tree)
serializeEvent(item, event, tree, top_level) ==
  [status |-> StatusOK,
   tree |-> AddChild(addLegacyFieldsAndDecorations(item, tree, top_level),
                     Str_columns, putColumns(event.kids, EmptyTree))]

\* The inner loop of serializeQueryLogItemAsEvents, lines 396-401, over the
\* rows of one action of the serialized DiffResults.
RECURSIVE eventsOfRows(_, _, _, _, _)
eventsOfRows(item, action, rows, tree, top_level) ==
  IF rows = <<>> THEN tree
  ELSE eventsOfRows(item, action, Tail(rows),
                    AddChild(tree, <<>>,
                             Put(serializeEvent(item, Head(rows)[2], EmptyTree,
                                                top_level).tree,
                                 Str_action, action)),
                    top_level)

\* The outer loop, line 395, over the actions.
RECURSIVE eventsOfActions(_, _, _, _)
eventsOfActions(item, actions, tree, top_level) ==
  IF actions = <<>> THEN tree
  ELSE eventsOfActions(item, Tail(actions),
                       eventsOfRows(item, Head(actions)[1],
                                    Head(actions)[2].kids, tree, top_level),
                       top_level)

\* Lines 391-403: d is the serialized DiffResults.
eventsOfDiff(item, d, tree, top_level) ==
  IF ~Ok(d.status) THEN [status |-> d.status, tree |-> tree]
  ELSE [status |-> StatusOK,
        tree |-> eventsOfActions(item, d.tree.kids, tree, top_level)]

\* Status serializeQueryLogItemAsEvents(const QueryLogItem& i, pt::ptree&)
serializeQueryLogItemAsEvents(item, tree, top_level) ==
  eventsOfDiff(item, serializeDiffResults(item.results, EmptyTree), tree,
               top_level)

\* verify_json of write_json: the root holds no data, and no node holds both
\* data and children.
RECURSIVE VerifyJson(_, _)
VerifyJson(tree, depth) ==
  /\ ~(depth = 0 /\ tree.data # <<>>)
  /\ ~(tree.data # <<>> /\ tree.kids # <<>>)
  /\ \A i \in DOMAIN tree.kids : VerifyJson(tree.kids[i][2], depth + 1)

\* The document write_json prints for a tree: below the root a node without
\* children is its data as a string and a node whose keys are all empty is
\* an array; any other node is an object.
RECURSIVE JsonOf(_, _)
JsonOf(tree, depth) ==
  IF depth > 0 /\ tree.kids = <<>> THEN [string |-> tree.data]
  ELSE IF depth > 0 /\ Count(tree, <<>>) = Len(tree.kids)
  THEN [array |-> [i \in DOMAIN tree.kids |->
                     JsonOf(tree.kids[i][2], depth + 1)]]
  ELSE [object |-> [i \in DOMAIN tree.kids |->
                      <<tree.kids[i][1], JsonOf(tree.kids[i][2], depth + 1)>>]]

\* The loop of serializeQueryLogItemAsEventsJSON over the events, lines
\* 414-422.
RECURSIVE writeEvents(_, _)
writeEvents(kids, items) ==
  IF kids = <<>> THEN [status |-> StatusOK, items |-> items]
  ELSE IF ~VerifyJson(Head(kids)[2], 0)
  THEN [status |-> Status(1, "json_parser_error"), items |-> items]
  ELSE writeEvents(Tail(kids), Append(items, JsonOf(Head(kids)[2], 0)))

\* Lines 410-423: s is the tree of events.
writeEventsOf(s, items) ==
  IF ~Ok(s.status) THEN [status |-> s.status, items |-> items]
  ELSE writeEvents(s.tree.kids, items)

\* Status serializeQueryLogItemAsEventsJSON(const QueryLogItem& i,
\* std::vector<std::string>& items)
serializeQueryLogItemAsEventsJSON(item, items, top_level) ==
  writeEventsOf(serializeQueryLogItemAsEvents(item, EmptyTree, top_level),
                items)

-----------------------------------------------------------------------------
(* The serializers' actions: a value is serialized to a fresh tree and     *)
(* the tree deserialized into a fresh value; a QueryLogItem is flattened   *)
(* to its events.                                                          *)

SerIdle ==
  /\ serPc = "idle"
  /\ serIn = NoOp
  /\ serOut = NoOp

\* The record of a round trip: s the serialization, status and value those
\* of the deserialization.
TripOutcome(s, status, value) ==
  [status |-> IF Ok(s.status) THEN status ELSE s.status, tree |-> s.tree,
   value |-> value]

RowTrip(s, d) == TripOutcome(s, d.status, d.row)
RowBack(s) == RowTrip(s, deserializeRow(s.tree, <<>>))

RoundTripRow(r) ==
  /\ serPc = "idle"
  /\ serOut' = RowBack(serializeRow(r, EmptyTree))
  /\ serIn' = [op |-> "Row", value |-> r]
  /\ serPc' = "returned"
  /\ UNCHANGED <<checkVars, diffVars, dbVars, uniqueVars>>

QueryDataTrip(s, d) == TripOutcome(s, d.status, d.qd)
QueryDataBack(s) == QueryDataTrip(s, deserializeQueryData(s.tree, <<>>))

RoundTripQueryData(q) ==
  /\ serPc = "idle"
  /\ serOut' = QueryDataBack(serializeQueryData(q, EmptyTree))
  /\ serIn' = [op |-> "QueryData", value |-> q]
  /\ serPc' = "returned"
  /\ UNCHANGED <<checkVars, diffVars, dbVars, uniqueVars>>

DiffResultsTrip(s, d) == TripOutcome(s, d.status, d.dr)
DiffResultsBack(s) ==
  DiffResultsTrip(s, deserializeDiffResults(s.tree, NoDiffResults))

RoundTripDiffResults(d) ==
  /\ serPc = "idle"
  /\ serOut' = DiffResultsBack(serializeDiffResults(d, EmptyTree))
  /\ serIn' = [op |-> "DiffResults", value |-> d]
  /\ serPc' = "returned"
  /\ UNCHANGED <<checkVars, diffVars, dbVars, uniqueVars>>

\* The record of an event flattening: s the tree of events, j the JSON items.
EventsOutcome(s, j) ==
  [status |-> s.status, tree |-> s.tree, jsonStatus |-> j.status,
   items |-> j.items]

SerializeEvents(item, top_level) ==
  /\ serPc = "idle"
  /\ serOut' = EventsOutcome(
                 serializeQueryLogItemAsEvents(item, EmptyTree, top_level),
                 serializeQueryLogItemAsEventsJSON(item, <<>>, top_level))
  /\ serIn' = [op |-> "Events", value |-> item, top_level |-> top_level]
  /\ serPc' = "returned"
  /\ UNCHANGED <<checkVars, diffVars, dbVars, uniqueVars>>

\* The caller takes the result.
SerReturn ==
  /\ serPc = "returned"
  /\ serPc' = "idle"
  /\ serIn' = NoOp
  /\ serOut' = NoOp
  /\ UNCHANGED <<checkVars, diffVars, dbVars, uniqueVars>>

\* The values given to the serializers.
Col_empty == <<>>
Col_a == <<"a">>
Col_a_b == <<"a", ".", "b">>
SerColumns == {Col_empty, Col_a, Col_a_b}
SerRows == UNION {[C -> {<<"1">>}] : C \in SUBSET SerColumns}
SerQueryData == SeqsUpTo(SerRows, MaxSerRows)
SerDiffResults == [added : SerQueryData, removed : SerQueryData]
\* The rows of the items that are flattened to events.
EventRows ==
  {<<>>, (Col_a :> <<"1">>), (Col_a_b :> <<"1">>), (Col_empty :> <<"1">>),
   (Col_a :> <<"1">>) @@ (Col_a_b :> <<"1">>)}
EventQueryData == SeqsUpTo(EventRows, MaxSerRows)
EventDiffResults == [added : EventQueryData, removed : EventQueryData]
SerSnapshots == {<<>>, <<(Col_a :> <<"1">>)>>}
SerDecorations == {<<>>, (<<"d">> :> <<"x">>)}
SerItems ==
  [results : EventDiffResults, snapshot_results : SerSnapshots,
   name : {<<"q">>}, identifier : {<<"h">>}, calendar_time : {<<"t">>},
   time : {12}, decorations : SerDecorations]

-----------------------------------------------------------------------------
(* addUniqueRowToQueryData, database.cpp:426-432.  The result is the       *)
(* sequence the call leaves and the boolean it returns.                    *)

\* A variant that appends the row without looking for it.
addUniqueRowToQueryData_AlwaysAppend(qd, r) ==
  [q |-> Append(qd, r), result |-> TRUE]

\* bool addUniqueRowToQueryData(QueryData& q, const Row& r)
addUniqueRowToQueryData(qd, r) ==
  IF Contains(qd, r)
  THEN [q |-> qd, result |-> FALSE]
  ELSE [q |-> Append(qd, r), result |-> TRUE]

\* No call has been made; the sequence is empty.
UniqueIdle ==
  /\ queryData = <<>>
  /\ uniqueStart = <<>>
  /\ uniqueCall = NoOp

\* The record of a call: the row, the sequence before, what was returned.
UniqueOutcome(r, before, res) ==
  [op |-> "addUniqueRowToQueryData", r |-> r, before |-> before,
   result |-> res.result]

\* A caller adds row r to its sequence.
AddUniqueRowToQueryData(r) ==
  /\ Len(queryData) < MaxQuery
  /\ queryData' = addUniqueRowToQueryData(queryData, r).q
  /\ uniqueCall' = UniqueOutcome(r, queryData,
                                 addUniqueRowToQueryData(queryData, r))
  /\ UNCHANGED uniqueStart
  /\ UNCHANGED <<checkVars, diffVars, dbVars, serVars>>

-----------------------------------------------------------------------------
(* Specifications: one per part of the program.                            *)

InitCheckDB == CheckIdle /\ DiffIdle /\ DbIdle /\ SerIdle /\ UniqueIdle

NextCheckDB ==
  \/ \E b \in BOOLEAN : SetRequireWrite(b)
  \/ CheckDBEnter
  \/ \E s \in SetUpStatuses, ro \in BOOLEAN : CheckDBSetUp(s, ro)
  \/ \E e \in Throwables, ro \in BOOLEAN : CheckDBSetUpThrows(e, ro)
  \/ CheckDBTearDown
  \/ \E e \in Throwables : CheckDBTearDownThrows(e)
  \/ CheckDBCatch
  \/ CheckDBExit
  \/ CheckDBDone
  \/ CheckDBUnwind
  \/ \E s \in SetUpStatuses, ro \in BOOLEAN : Reset(s, ro)
  \/ \E e \in Throwables, ro \in BOOLEAN : ResetThrows(e, ro)

SpecCheckDB == InitCheckDB /\ [][NextCheckDB]_vars

InitDiff ==
  /\ CheckIdle /\ DbIdle /\ SerIdle /\ UniqueIdle
  /\ old \in DiffQueryData
  /\ current \in DiffQueryData
  /\ diffPc = "input"
  /\ diffOut = NoDiffResults

NextDiff == Diff

SpecDiff == InitDiff /\ [][NextDiff]_vars

InitCall == CheckIdle /\ DiffIdle /\ DbIdle /\ SerIdle /\ UniqueIdle

NextCall ==
  \/ \E request \in Requests, response \in Responses : Call(request, response)
  \/ DbReturn

SpecCall == InitCall /\ [][NextCall]_vars

InitRoute ==
  /\ CheckIdle /\ DiffIdle /\ SerIdle /\ UniqueIdle
  /\ db = <<>>
  /\ faults \in SUBSET RouteFaultOps
  /\ external \in BOOLEAN
  /\ registered \in {{kInternalDatabase}, {kInternalDatabase, kEphemeral}}
  /\ plugin = ""
  /\ shelved = [n \in registered |-> <<>>]
  /\ FLAGS_disable_database = FALSE
  /\ dbPc = "idle"
  /\ last = NoOp
  /\ twin = NoOp

NextRoute ==
  \/ \E d \in RouteDomains, k \in RouteKeys, v \in {<<>>, Val_w} :
       GetDatabaseValue(d, k, v)
  \/ \E d \in RouteDomains, k \in RouteKeys, v \in RouteValues :
       SetDatabaseValue(d, k, v)
  \/ \E d \in RouteDomains, k \in RouteKeys : DeleteDatabaseValue(d, k)
  \/ \E d \in RouteDomains, keys \in {<<>>, <<<<"x">>>>},
        p \in RoutePrefixes, max \in 0..MaxScan :
       ScanDatabaseKeys(d, keys, p, max)
  \/ \E b \in BOOLEAN : SetDisableDatabase(b)
  \/ InitPlugin
  \/ Shutdown
  \/ DbReturn

SpecRoute == InitRoute /\ [][NextRoute]_vars

InitDump ==
  /\ CheckIdle /\ DiffIdle /\ SerIdle /\ UniqueIdle
  /\ db \in DumpStores
  /\ faults \in SUBSET DumpFaultOps
  /\ external \in BOOLEAN
  /\ registered \in {{}, {kInternalDatabase}}
  /\ plugin \in {"", kInternalDatabase}
  /\ shelved = [n \in registered \ {plugin} |-> <<>>]
  /\ FLAGS_disable_database = FALSE
  /\ dbPc = "idle"
  /\ last = NoOp
  /\ twin = NoOp

NextDump ==
  \/ DumpDatabase
  \/ DumpScan
  \/ DumpGet
  \/ \E p \in DumpWrites : OtherSetDatabaseValue(p[1], p[2], Val_w)
  \/ \E p \in DumpWrites : OtherDeleteDatabaseValue(p[1], p[2])

SpecDump == InitDump /\ [][NextDump]_vars

InitSerialize == CheckIdle /\ DiffIdle /\ DbIdle /\ SerIdle /\ UniqueIdle

NextSerialize ==
  \/ \E r \in SerRows : RoundTripRow(r)
  \/ \E q \in SerQueryData : RoundTripQueryData(q)
  \/ \E d \in SerDiffResults : RoundTripDiffResults(d)
  \/ \E item \in SerItems, top_level \in BOOLEAN :
       SerializeEvents(item, top_level)
  \/ SerReturn

SpecSerialize == InitSerialize /\ [][NextSerialize]_vars

\* The caller's sequence starts as any QueryData, duplicates allowed;
\* uniqueStart keeps what it started as.
InitUnique ==
  /\ CheckIdle /\ DiffIdle /\ DbIdle /\ SerIdle
  /\ queryData \in DiffQueryData
  /\ uniqueStart = queryData
  /\ uniqueCall = NoOp

NextUnique == \E r \in DiffRows : AddUniqueRowToQueryData(r)

SpecUnique == InitUnique /\ [][NextUnique]_vars

-----------------------------------------------------------------------------
(* The claims.                                                             *)

\* Number of rows of q equal to r.
Occurrences(q, r) == Cardinality({i \in DOMAIN q : q[i] = r})

\* Whether a can be obtained from b by dropping elements.
RECURSIVE IsSubsequence(_, _)
IsSubsequence(a, b) ==
  IF a = <<>> THEN TRUE
  ELSE IF b = <<>> THEN FALSE
  ELSE IF Head(a) = Head(b) THEN IsSubsequence(Tail(a), Tail(b))
  ELSE IsSubsequence(a, Tail(b))

Max0(n) == IF n > 0 THEN n ELSE 0

\* C1: checkDB holds kCheckingDB true from its first statement until it is
\* left, and kCheckingDB is false once checkDB is finished, on every path
\* (setUp and tearDown succeed, setUp returns a failure status, setUp or
\* tearDown raises a fault of any type); checkDB is never left by the fault
\* it met but returns false after it, and the indicator is never true while
\* no check is running.
C1_CheckingIndicatorReleased ==
  /\ checkPc \in {"setUp", "tearDown", "catch", "exit"} => kCheckingDB = TRUE
  /\ checkPc # "propagated"
  /\ checkPc \in {"idle", "returned"} => kCheckingDB = FALSE
  /\ (checkPc = "returned" /\ checkFault # NoFault) => checkResult = FALSE
  /\ (checkPc = "returned" /\ checkFault = NoFault /\ ~Ok(checkStatus))
       => checkResult = FALSE

\* checkDB has returned after tearDown raised a std::exception: the indicator
\* is released and the result is false.
C1_Witness ==
  /\ checkPc = "returned"
  /\ checkFault = [in |-> "tearDown", exception |-> StdException]
  /\ kCheckingDB = FALSE
  /\ checkResult = FALSE

\* C2: when write access is required and the backend is read-only after
\* setUp, checkDB returns false whatever setUp's status; it returns true only
\* when setUp succeeded and the write requirement, if configured, is met.
C2_WriteRequirementEnforced ==
  checkPc = "returned" =>
    /\ (kDBHandleOptionRequireWrite /\ read_only_) => checkResult = FALSE
    /\ checkResult = TRUE =>
         (Ok(checkStatus) /\ ~(kDBHandleOptionRequireWrite /\ read_only_))

\* C3: added is the rows of current, in current's order, equal to no row of
\* old; removed holds each row max(0, count in old - count in overlap) times,
\* overlap being the rows of current that have an equal row in old.  So
\* diff(A, A) is empty, and two identical old rows against one matching
\* current row leave that row removed exactly once and nothing added.
C3_DiffAddedAndRemoved ==
  diffPc = "done" =>
    LET rows == Range(old) \cup Range(current) \cup Range(diffOut.added)
                \cup Range(diffOut.removed)
        InOverlap(r) == IF Contains(old, r) THEN Occurrences(current, r) ELSE 0
    IN /\ \A r \in rows :
            Occurrences(diffOut.added, r) =
              IF Contains(old, r) THEN 0 ELSE Occurrences(current, r)
       /\ IsSubsequence(diffOut.added, current)
       /\ \A r \in rows :
            Occurrences(diffOut.removed, r) =
              Max0(Occurrences(old, r) - InOverlap(r))
       /\ old = current => diffOut = NoDiffResults
       /\ (Len(old) = 2 /\ old[1] = old[2] /\ current = <<old[1]>>)
            => (diffOut.removed = <<old[1]>> /\ diffOut.added = <<>>)

\* diff has run on two identical old rows and one matching current row.
C3_Witness ==
  /\ diffPc = "done"
  /\ Len(old) = 2
  /\ old[1] = old[2]
  /\ current = <<old[1]>>
  /\ diffOut.removed = <<old[1]>>
  /\ diffOut.added = <<>>

\* C4, as stated: every row in added is absent from old, and every row in
\* removed is present in old and has no equal row in current.
C4_RemovedHasNoMatchInCurrent ==
  diffPc = "done" =>
    /\ \A i \in DOMAIN diffOut.added : ~Contains(old, diffOut.added[i])
    /\ \A i \in DOMAIN diffOut.removed :
         /\ Contains(old, diffOut.removed[i])
         /\ ~Contains(current, diffOut.removed[i])

\* C4, amended: every row in added is absent from old, and every row in
\* removed is present in old and occurs more often in old than in current
\* (it may still have equal rows in current, fewer than old holds).
C4_RemovedOutnumbersCurrent ==
  diffPc = "done" =>
    /\ \A i \in DOMAIN diffOut.added : ~Contains(old, diffOut.added[i])
    /\ \A i \in DOMAIN diffOut.removed :
         /\ Contains(old, diffOut.removed[i])
         /\ Occurrences(old, diffOut.removed[i])
              > Occurrences(current, diffOut.removed[i])

\* diff has reported as removed a row that current still holds, next to a
\* row it reported as added.
C4_Witness ==
  /\ diffPc = "done"
  /\ diffOut.added # <<>>
  /\ \E i \in DOMAIN diffOut.removed : Contains(current, diffOut.removed[i])

\* A request that call rejects as a protocol error: no action, a put without
\* value, or an action other than get, put, remove, scan.
ProtocolError(request) ==
  \/ "action" \notin DOMAIN request
  \/ request["action"] = Str_put /\ "value" \notin DOMAIN request
  \/ request["action"] \notin {Str_get, Str_put, Str_remove, Str_scan}

\* A request with a missing or invalid field: a protocol error, a scan
\* without prefix, or a scan whose max is not a decimal number.
InvalidRequest(request) ==
  \/ ProtocolError(request)
  \/ /\ request["action"] = Str_scan
     /\ \/ "prefix" \notin DOMAIN request
        \/ /\ "max" \in DOMAIN request
           /\ DigitPrefix(request["max"]) # request["max"]
        \/ /\ "max" \in DOMAIN request
           /\ request["max"] = <<>>

\* C5: for every request map, call returns a status and no exception leaves
\* it; a request with a missing or invalid field gets a failure status.
C5_CallReturnsStatus ==
  (dbPc = "returned" /\ last.op = "call") =>
    /\ last.exception = "none"
    /\ last.status.code \in {0, 1}
    /\ InvalidRequest(last.request) => last.status.code = 1

\* C6: a request rejected as a protocol error returns a failure status with
\* no side effect: no backend operation is made, the store is unchanged and
\* the response list is as the caller gave it.
C6_ProtocolErrorNoSideEffect ==
  (dbPc = "returned" /\ last.op = "call" /\ ProtocolError(last.request)) =>
    /\ last.exception = "none"
    /\ last.status.code = 1
    /\ last.ops = <<>>
    /\ db = last.dbBefore
    /\ last.response = last.response0

\* call has rejected a put without value, on a store that holds entries and
\* with a response list that held an entry.
C6_Witness ==
  /\ dbPc = "returned"
  /\ last.op = "call"
  /\ "action" \in DOMAIN last.request
  /\ last.request["action"] = Str_put
  /\ "value" \notin DOMAIN last.request
  /\ last.status.code = 1
  /\ DOMAIN last.dbBefore # {}
  /\ Len(last.response0) > 0

TypedOps ==
  {"getDatabaseValue", "setDatabaseValue", "deleteDatabaseValue",
   "scanDatabaseKeys"}

\* C7: with the database plugin active, a typed operation yields the same
\* status, the same output and the same store whether it is routed through
\* the registry (remote) or made on the backend directly (local), from every
\* store the operations reach.
C7_RoutingTransparent ==
  (dbPc = "returned" /\ last.op \in TypedOps /\ getDatabasePlugin(Registry)) =>
    /\ twin.status = last.status
    /\ twin.exception = last.exception
    /\ twin.out = last.out
    /\ twin.db = last.db
    /\ twin.ops = last.ops

\* A remote scan with max = 1 has appended one of the two matching keys to a
\* list that already held a key.
C7_Witness ==
  /\ dbPc = "returned"
  /\ last.op = "scanDatabaseKeys"
  /\ external
  /\ getDatabasePlugin(Registry)
  /\ last.args.max = 1
  /\ Len(last.args.keys) > 0
  /\ Len(last.out) = Len(last.args.keys) + 1
  /\ Cardinality({p \in DOMAIN db : /\ p[1] = last.args.domain
                                    /\ HasPrefix(p[2], last.args.prefix)}) = 2

\* Whether a dump of an unchanging store reports the entry of key k in the
\* i-th domain.
Dumped(i, k) ==
  /\ <<"scan", kDomains[i]>> \notin faults
  /\ <<kDomains[i], k>> \in DOMAIN db
  /\ <<"get", kDomains[i], k>> \notin faults

DomainIndex(d) == CHOOSE i \in DOMAIN kDomains : kDomains[i] = d

\* Whether the steps t of a dump are a scan per domain, each successful scan
\* followed by a get of every key it returned, in the order returned.
RECURSIVE DumpShape(_)
DumpShape(t) ==
  IF t = <<>> THEN TRUE
  ELSE /\ Head(t)[1] = "scan"
       /\ IF Head(t)[3]
          THEN /\ Len(t) >= 1 + Len(Head(t)[4])
               /\ \A i \in DOMAIN Head(t)[4] :
                    /\ t[1 + i][1] = "get"
                    /\ t[1 + i][2] = Head(t)[2]
                    /\ t[1 + i][3] = Head(t)[4][i]
               /\ DumpShape(SubSeq(t, 2 + Len(Head(t)[4]), Len(t)))
          ELSE DumpShape(Tail(t))

\* The domains scanned by the steps t, in order.
ScannedDomains(t) ==
  LET IsScan(e) == e[1] = "scan"
      scans == SelectSeq(t, IsScan)
  IN [i \in DOMAIN scans |-> scans[i][2]]

\* The domain/key/value triples of the gets of t that succeeded, in order.
GotTriples(t) ==
  LET GotIt(e) == e[1] = "get" /\ e[4]
      gets == SelectSeq(t, GotIt)
  IN [i \in DOMAIN gets |-> <<gets[i][2], gets[i][3], gets[i][5]>>]

\* C8: every dump, in either routing mode and whatever the registry holds,
\* scans each of the four domains, in order, with no prefix and no limit,
\* whatever failed before and whatever other callers wrote meanwhile; it gets
\* every key a successful scan returned and reports exactly the gets that
\* succeed, each with the value got; it ends with no domain left and without
\* failure.  Of a store no one writes meanwhile it reports exactly the
\* entries whose scan and get succeed.
C8_DumpBestEffort ==
  (dbPc = "returned" /\ last.op = "dumpDatabase") =>
    LET IsScan(o) == o[1] = "scan"
        IsGet(o) == o[1] = "get"
    IN /\ last.exception = "none"
       /\ last.domains = <<>>
       /\ last.keys = <<>>
       /\ ScannedDomains(last.trace) = kDomains
       /\ DumpShape(last.trace)
       /\ last.out = GotTriples(last.trace)
       /\ getDatabasePlugin(Registry) =>
            SelectSeq(last.ops, IsScan) =
              [i \in DOMAIN kDomains |-> <<"scan", kDomains[i], <<>>, 0>>]
       /\ (getDatabasePlugin(Registry) /\ last.writes = 0) =>
            /\ Range(last.out) =
                 {<<kDomains[i], k, db[<<kDomains[i], k>>]>> :
                    <<i, k>> \in {p \in (DOMAIN kDomains) \X DumpKeys :
                                    Dumped(p[1], p[2])}}
            /\ Len(last.out) = Cardinality(Range(last.out))
            /\ \A m, n \in DOMAIN last.out :
                 m < n => DomainIndex(last.out[m][1])
                            <= DomainIndex(last.out[n][1])
            /\ Range(SelectSeq(last.ops, IsGet)) =
                 {<<"get", p[1], p[2]>> :
                    p \in {q \in DOMAIN db : <<"scan", q[1]>> \notin faults}}
       /\ (~getDatabasePlugin(Registry) /\ last.writes = 0) => last.out = <<>>

\* A dump has run past a failed scan of the first domain, which holds an
\* entry, and past a failed get in the second; it has reported an entry that
\* another caller overwrote after it was read, an entry another caller wrote
\* before its domain was scanned, and the entry of the last domain.
C8_Witness ==
  /\ dbPc = "returned"
  /\ last.op = "dumpDatabase"
  /\ external
  /\ getDatabasePlugin(Registry)
  /\ {<<"scan", kPersistentSettings>>, <<"get", kQueries, Key_a>>}
       \subseteq faults
  /\ {<<kPersistentSettings, Key_a>>, <<kQueries, Key_a>>,
      <<kQueries, Key_ab>>} \subseteq DOMAIN db
  /\ last.out = <<<<kQueries, Key_ab, Val_v>>, <<kEvents, Key_a, Val_w>>,
                  <<kLogs, Key_a, Val_v>>>>
  /\ db[<<kQueries, Key_ab>>] = Val_w

\* Whether the event document holds exactly the row's pairs under "columns",
\* the action, and the legacy fields of the item.
EventOf(event, item, action, row) ==
  /\ Count(event, Str_action) = 1
  /\ GetChild(event, Str_action).data = action
  /\ Count(event, Str_columns) = 1
  /\ Len(GetChild(event, Str_columns).kids) = Cardinality(DOMAIN row)
  /\ Range(GetChild(event, Str_columns).kids) =
       {<<c, [data |-> row[c], kids |-> <<>>]>> : c \in DOMAIN row}
  /\ Count(event, Str_name) = 1
  /\ GetChild(event, Str_name).data = item.name
  /\ Count(event, Str_hostIdentifier) = 1
  /\ GetChild(event, Str_hostIdentifier).data = item.identifier

\* C9: the events of an item are one document per row of added, in order,
\* with action "added", then one per row of removed, in order, with action
\* "removed"; each holds exactly its row's column/value pairs under
\* "columns", next to the legacy fields; the JSON variant yields one text
\* per event.  An item with an empty diff yields no event.
C9_EventsOnePerRow ==
  (serPc = "returned" /\ serIn.op = "Events") =>
    LET added == serIn.value.results.added
        removed == serIn.value.results.removed
        events == serOut.tree.kids
    IN /\ Ok(serOut.status)
       /\ Len(events) = Len(added) + Len(removed)
       /\ \A i \in DOMAIN added :
            EventOf(events[i][2], serIn.value, Str_added, added[i])
       /\ \A i \in DOMAIN removed :
            EventOf(events[Len(added) + i][2], serIn.value, Str_removed,
                    removed[i])
       /\ Ok(serOut.jsonStatus)
       /\ Len(serOut.items) = Len(events)

\* C10: serializing a Row, a QueryData or a DiffResults to a tree and
\* deserializing the tree into a fresh value succeeds and yields a value
\* equal to the original.
C10_RoundTrip ==
  (serPc = "returned" /\ serIn.op \in {"Row", "QueryData", "DiffResults"}) =>
    /\ Ok(serOut.status)
    /\ serOut.value = serIn.value

\* Whether no two rows of q are structurally equal.
NoDuplicates(q) == \A i, j \in DOMAIN q : q[i] = q[j] => i = j

\* What a call of addUniqueRowToQueryData returns and leaves: false and the
\* sequence as it was when the row is present, true and the row appended at
\* the end otherwise.
InsertsOnlyIfAbsent ==
  uniqueCall.op = "addUniqueRowToQueryData" =>
    /\ Contains(uniqueCall.before, uniqueCall.r) =>
         (uniqueCall.result = FALSE /\ queryData = uniqueCall.before)
    /\ ~Contains(uniqueCall.before, uniqueCall.r) =>
         (uniqueCall.result = TRUE
          /\ queryData = Append(uniqueCall.before, uniqueCall.r))

\* C11, as stated: for any sequence q and row r, and after any sequence of
\* calls, the resulting sequence holds no two structurally-equal rows; a row
\* already present returns false and leaves q unchanged, otherwise the call
\* returns true with r appended at the end.
C11_NeverTwoEqualRows ==
  /\ InsertsOnlyIfAbsent
  /\ uniqueCall.op = "addUniqueRowToQueryData" => NoDuplicates(queryData)

\* C11, amended: a sequence that started without two equal rows holds none
\* after any sequence of calls, and from any start a call adds no second
\* instance of a row; a row already present returns false and leaves q
\* unchanged, otherwise the call returns true with r appended at the end.
C11_AddsNoDuplicate ==
  /\ InsertsOnlyIfAbsent
  /\ NoDuplicates(uniqueStart) => NoDuplicates(queryData)
  /\ \A r \in DiffRows :
       Occurrences(queryData, r) <= IF Contains(uniqueStart, r)
                                    THEN Occurrences(uniqueStart, r) ELSE 1
  /\ IsSubsequence(uniqueStart, queryData)

\* A call has refused a row that an earlier call appended to a sequence that
\* started without equal rows.
C11_Witness ==
  /\ uniqueCall.op = "addUniqueRowToQueryData"
  /\ uniqueCall.result = FALSE
  /\ NoDuplicates(uniqueStart)
  /\ ~Contains(uniqueStart, uniqueCall.r)
  /\ queryData = uniqueCall.before
  /\ Len(queryData) > Len(uniqueStart)

=============================================================================
